---- MODULE Spec2Model ----
(***************************************************************************)
(* Task coordination engine of ollama-tty: the ContextStore                *)
(* (src/mcp_server/context_store.py), the tool handlers layered on it      *)
(* (src/mcp_server/tools.py) and the worker loop (src/workers/worker.py).  *)
(*                                                                         *)
(* Granularity.  The store guards each read-modify-write with one          *)
(* asyncio.Lock, so one `async with self.lock` block is one atomic step.   *)
(* A tool handler that enters the lock more than once (fetch_task: once    *)
(* in get_available_tasks, once in assign_task) is one step per block in   *)
(* Spec, where handlers of different callers interleave between blocks.    *)
(* SpecStore runs whole handlers one after the other (no overlap).         *)
(***************************************************************************)
EXTENDS Integers, Sequences, FiniteSets, TLC

\* ---------------------------------------------------------------- bounds
MaxTasks == 2
MaxOps == 4
MaxFaults == 2
MaxEntries == 1
MaxBoots == 1
MaxStatusTasks == 6
MaxLog == 2

\* ------------------------------------------------------------- constants
\* worker.py:360  steps = 5
steps == 5

None == "None"
NoTask == 0
NoProgress == -1
NoResponse == 0

TaskIds == 1..MaxTasks

\* An id that names no task, as a caller may put into a dependency list
Missing == MaxTasks + 1

\* context_store.py:17-24
TaskStatus == {"pending", "assigned", "in_progress", "completed", "failed", "blocked"}

\* Two worker processes with overlapping capability lists, as the developer
\* and devops profiles of worker.py:28-53 overlap in "docker".
Workers == {"w1", "w2"}
Caps == {"python", "docker"}
WorkerCaps(w) == IF w = "w1" THEN {"python", "docker"} ELSE {"docker"}

\* Inputs of the create_task tool (tools.py:136-141): no dependency, the first
\* task, an id that names no task; no requirement, one capability, two
\* capabilities.
DepChoices == {{}, {1}, {Missing}}
CapChoices == {{}, {"python"}, {"python", "docker"}}

\* Inputs of the update_task_status tool (tools.py:192-194): the statuses the
\* callers of this repository send (worker.py:287, tools.py:217, tools.py:236),
\* without a progress or with one.
StatusInputs == {"in_progress", "completed", "failed"}
ProgressInputs == {NoProgress, 100}

\* The plans the Lead seeds in a run (lead.py:152-201 is one such plan): a task
\* with or without a dependency on the first task, open to every worker or to
\* the workers with "python".
PlanDeps == {{}, {1}}
PlanCaps == {{}, {"python"}}

\* MCPClient.call_tool (worker.py:80-107): the call returns, or it raises before
\* the handler ran, or it raises after the handler ran (an error response, a
\* lost response).
CallOutcomes == {"ok", "lost_request", "lost_response"}

\* Coroutines of the server that call the store at the same time
Callers == {"c1", "c2"}

\* The arguments drawn in SpecDisk: a terminal TaskStatus, a WorkerStatus
\* (context_store.py:27-33) and the event type of a log_event entry
DiskStatusInputs == {"completed"}
WorkerStatusInputs == {"busy"}
Entries == {"task_start"}

\* Inputs of the request_clarification tool (tools.py:265-267)
ClarifyInputs == {[worker_id |-> "w1", task_id |-> 1]}

\* _save (context_store.py:93-95): the file is written; open() raises and the
\* file is as before; json.dump or the close raises after open() emptied the file
SaveOutcomes == {"written", "open_failed", "dump_failed"}

VARIABLES
    context,      \* ContextStore.context: tasks, their insertion order, workers, metrics
    pc,           \* per worker: position in work_loop / the handler it is in
    fetched,      \* per worker: available_tasks[0] held by its fetch_task handler
    current_task, \* per worker: Worker.current_task
    step,         \* per worker: loop variable of execute_task_iterative
    reports,      \* per worker: terminal reports sent for the task being executed
    returned,     \* per task and worker: how often fetch_task returned the task to the worker
    faults,       \* calls and log writes that have raised so far
    nops,         \* tool calls made so far in SpecStore
    lead,         \* the Lead: number of create_task calls still to make
    is_running,   \* ProjectLead.is_running
    declared,     \* the metrics of the status poll on which the Lead declared completion
    disk,         \* the snapshot file at storage_path: <<>> when there is none
    inflight,     \* per caller of the store in SpecDisk: its operation and where it is
    boot,         \* how often a store was constructed on the file again, and how the last _load went
    is_active,    \* per worker: Worker.is_active
    project_status, \* what the last get_project_status call of SpecStatus returned
    response,     \* what the last tool call of SpecStore returned, for fetch_task and the log tools
    lock          \* ContextStore.lock in SpecDisk: the caller that holds it, or None

workerVars == <<pc, fetched, current_task, step, reports, faults>>
leadVars == <<lead, is_running, declared>>
diskVars == <<disk, inflight, boot, lock>>
vars == <<context, pc, fetched, current_task, step, reports, returned, faults, nops,
          lead, is_running, declared, disk, inflight, boot, is_active,
          project_status, response, lock>>

\* ------------------------------------------------------------ the store
\* context_store.py:129-137 with the task_data of tools.py:136-141.  The fields
\* that no operation reads back (description, estimated_hours, result, the
\* timestamps) are left out.
NewTask(deps, caps) ==
    [status |-> "pending", assigned_to |-> None, progress |-> 0,
     dependencies |-> deps, required_capabilities |-> caps]

\* context_store.py:57-72
EmptyContext ==
    [tasks |-> [id \in {} |-> NewTask({}, {})], order |-> <<>>,
     workers |-> [wid \in {} |-> [status |-> "idle", current_tasks |-> <<>>]],
     conversation_history |-> <<>>,
     metrics |-> [total_tasks |-> 0, completed_tasks |-> 0, failed_tasks |-> 0,
                 end_time |-> None]]

TaskExists(ctx, tid) == tid \in DOMAIN ctx.tasks

\* context_store.py:139-141: dict store (a new key goes last, an existing key
\* keeps its place) and total_tasks += 1
StoreCreateTask(ctx, tid, deps, caps) ==
    [ctx EXCEPT
        !.tasks = [id \in DOMAIN ctx.tasks \cup {tid} |->
                      IF id = tid THEN NewTask(deps, caps) ELSE ctx.tasks[id]],
        !.order = IF TaskExists(ctx, tid) THEN ctx.order ELSE Append(ctx.order, tid),
        !.metrics.total_tasks = ctx.metrics.total_tasks + 1]

\* context_store.py:158-161
AppendCurrentTask(ws, wid, tid) ==
    IF wid \in DOMAIN ws
    THEN [ws EXCEPT ![wid].current_tasks = Append(ws[wid].current_tasks, tid)]
    ELSE ws

\* context_store.py:148-164
StoreAssignTask(ctx, tid, wid) ==
    IF ~TaskExists(ctx, tid)
    THEN ctx
    ELSE [ctx EXCEPT
            !.tasks[tid].status = "assigned",
            !.tasks[tid].assigned_to = wid,
            !.workers = AppendCurrentTask(ctx.workers, wid, tid)]

\* Mutant: a failed task is not counted
UpdateMetricsCompletedOnly(m, status) ==
    IF status = "completed"
    THEN [m EXCEPT !.completed_tasks = m.completed_tasks + 1]
    ELSE m

\* context_store.py:188-192
UpdateMetrics(m, status) ==
    IF status = "completed"
    THEN [m EXCEPT !.completed_tasks = m.completed_tasks + 1]
    ELSE IF status = "failed"
    THEN [m EXCEPT !.failed_tasks = m.failed_tasks + 1]
    ELSE m

\* Mutant: the status is written and the metrics are not (half of the update)
StoreUpdateTaskStatusNoMetrics(ctx, tid, status, progress) ==
    IF ~TaskExists(ctx, tid)
    THEN ctx
    ELSE [ctx EXCEPT
            !.tasks[tid].status = status,
            !.tasks[tid].progress = IF progress # NoProgress THEN progress ELSE @]

\* context_store.py:174-195
StoreUpdateTaskStatus(ctx, tid, status, progress) ==
    IF ~TaskExists(ctx, tid)
    THEN ctx
    ELSE [ctx EXCEPT
            !.tasks[tid].status = status,
            !.tasks[tid].progress = IF progress # NoProgress THEN progress ELSE @,
            !.metrics = UpdateMetrics(ctx.metrics, status)]

\* context_store.py:199-207: the fields that an operation reads back
NewWorker == [status |-> "idle", current_tasks |-> <<>>]

\* context_store.py:209-210
StoreRegisterWorker(ctx, wid) ==
    [ctx EXCEPT
        !.workers = [w \in DOMAIN ctx.workers \cup {wid} |->
                        IF w = wid THEN NewWorker ELSE ctx.workers[w]]]

\* context_store.py:217-225, called without a current_task
StoreUpdateWorkerStatus(ctx, wid, status) ==
    IF wid \notin DOMAIN ctx.workers
    THEN ctx
    ELSE [ctx EXCEPT !.workers[wid].status = status]

\* Mutant: the entry is put in front of the log
StoreAddConversationEntryFirst(ctx, entry, now) ==
    [ctx EXCEPT !.conversation_history =
        <<[entry |-> entry, timestamp |-> now]>> \o ctx.conversation_history]

\* context_store.py:298-302: the entry with a "timestamp" of datetime.utcnow()
\* added, appended to the list
StoreAddConversationEntry(ctx, entry, now) ==
    [ctx EXCEPT !.conversation_history =
        Append(ctx.conversation_history, [entry |-> entry, timestamp |-> now])]

\* context_store.py:315-320: the only place that sets end_time.  No tool of
\* tools.py runs it and neither the Lead nor main calls it.
StoreCompleteProject(ctx, now) == [ctx EXCEPT !.metrics.end_time = now]

\* Mutant: a dependency that names no task counts as met
DependenciesMetMissingOk(ctx, tid) ==
    \A dep \in ctx.tasks[tid].dependencies :
        TaskExists(ctx, dep) => ctx.tasks[dep].status = "completed"

\* Mutant: a dependency is never met
DependenciesMetNever(ctx, tid) == ctx.tasks[tid].dependencies = {}

\* context_store.py:246-250
DependenciesMet(ctx, tid) ==
    \A dep \in ctx.tasks[tid].dependencies :
        TaskExists(ctx, dep) /\ ctx.tasks[dep].status = "completed"

\* Mutant: the capability test is skipped
CapabilityMatchAlways(required_capabilities, worker_capabilities) == TRUE

\* context_store.py:254-257
CapabilityMatch(required_capabilities, worker_capabilities) ==
    \/ required_capabilities = {}
    \/ \E cap \in required_capabilities : cap \in worker_capabilities

\* context_store.py:244-258, the test one task of the loop goes through
IsAvailable(ctx, tid, worker_capabilities) ==
    /\ ctx.tasks[tid].status = "pending"
    /\ DependenciesMet(ctx, tid)
    /\ CapabilityMatch(ctx.tasks[tid].required_capabilities, worker_capabilities)

\* context_store.py:240-260: the loop over the dict in insertion order
RECURSIVE AvailableFrom(_, _, _)
AvailableFrom(ctx, ids, worker_capabilities) ==
    IF ids = <<>>
    THEN <<>>
    ELSE (IF IsAvailable(ctx, Head(ids), worker_capabilities)
          THEN <<Head(ids)>> ELSE <<>>)
         \o AvailableFrom(ctx, Tail(ids), worker_capabilities)

\* Mutant: the loop stops one task early
GetAvailableTasksSkipLast(ctx, worker_capabilities) ==
    AvailableFrom(ctx, SubSeq(ctx.order, 1, Len(ctx.order) - 1), worker_capabilities)

GetAvailableTasks(ctx, worker_capabilities) ==
    AvailableFrom(ctx, ctx.order, worker_capabilities)

\* Mutant: the last of the available tasks is taken
LastAvailable(ctx, worker_capabilities) ==
    IF GetAvailableTasks(ctx, worker_capabilities) = <<>>
    THEN NoTask
    ELSE GetAvailableTasks(ctx, worker_capabilities)[
             Len(GetAvailableTasks(ctx, worker_capabilities))]

\* Mutant: the first pending task is taken, available or not
FirstPending(ctx, worker_capabilities) ==
    LET p == {i \in 1..Len(ctx.order) : ctx.tasks[ctx.order[i]].status = "pending"}
    IN IF p = {} THEN NoTask
       ELSE ctx.order[CHOOSE i \in p : \A j \in p : i <= j]

\* tools.py:173-181: available_tasks[0], or no task
FirstAvailable(ctx, worker_capabilities) ==
    IF GetAvailableTasks(ctx, worker_capabilities) = <<>>
    THEN NoTask
    ELSE Head(GetAvailableTasks(ctx, worker_capabilities))

\* context_store.py:265-273: a dict of the statuses that occur, with their counts
CountByStatus(f) ==
    [st \in {f[x].status : x \in DOMAIN f} |->
        Cardinality({x \in DOMAIN f : f[x].status = st})]

\* Mutant: the quotient is cut after two decimals
OverallProgressTruncated(m) ==
    IF m.total_tasks > 0
    THEN (10000 * m.completed_tasks) \div m.total_tasks
    ELSE 0

\* context_store.py:275-280 and 286: completed_tasks / total_tasks * 100 rounded
\* to two decimals, in hundredths of a percent
OverallProgress(m) ==
    IF m.total_tasks > 0
    THEN (2 * 10000 * m.completed_tasks + m.total_tasks) \div (2 * m.total_tasks)
    ELSE 0

\* context_store.py:262-294
GetProjectStatus(ctx) ==
    [overall_progress |-> OverallProgress(ctx.metrics),
     metrics |-> ctx.metrics,
     tasks_by_status |-> CountByStatus(ctx.tasks),
     workers_by_status |-> CountByStatus(ctx.workers),
     active_workers |->
         Cardinality({w \in DOMAIN ctx.workers : ctx.workers[w].status \in {"active", "busy"}})]

\* Mutant: the test for an empty project is dropped
DeclareConditionNoTotal(metrics) ==
    metrics.completed_tasks + metrics.failed_tasks >= metrics.total_tasks

\* lead.py:289-291
DeclareCondition(metrics) ==
    /\ metrics.completed_tasks + metrics.failed_tasks >= metrics.total_tasks
    /\ metrics.total_tasks > 0

\* ------------------------------------------------------ the snapshot file
\* Mutant: the workers are left out of the file
DumpNoWorkers(ctx) ==
    [valid |-> TRUE,
     tasks |-> [i \in 1..Len(ctx.order) |->
                   [key |-> ctx.order[i], value |-> ctx.tasks[ctx.order[i]]]],
     workers |-> EmptyContext.workers,
     conversation_history |-> ctx.conversation_history,
     metrics |-> ctx.metrics]

\* context_store.py:95: json.dump writes the tasks dict as a JSON object, its
\* members in the dict's order; lists, numbers, strings and None (null) are
\* written as they are
Dump(ctx) ==
    [valid |-> TRUE,
     tasks |-> [i \in 1..Len(ctx.order) |->
                   [key |-> ctx.order[i], value |-> ctx.tasks[ctx.order[i]]]],
     workers |-> ctx.workers,
     conversation_history |-> ctx.conversation_history,
     metrics |-> ctx.metrics]

\* What the file holds after json.dump or the close raised: no complete JSON text
Truncated == [Dump(EmptyContext) EXCEPT !.valid = FALSE]

\* context_store.py:87: json.load builds the dict from the members in the file's
\* order, a later member with the same key replacing the value
Load(snap) ==
    [tasks |-> [id \in {snap.tasks[i].key : i \in 1..Len(snap.tasks)} |->
                   snap.tasks[CHOOSE i \in 1..Len(snap.tasks) :
                                 /\ snap.tasks[i].key = id
                                 /\ \A j \in 1..Len(snap.tasks) :
                                       snap.tasks[j].key = id => j <= i].value],
     order |-> [i \in 1..Len(snap.tasks) |-> snap.tasks[i].key],
     workers |-> snap.workers,
     conversation_history |-> snap.conversation_history,
     metrics |-> snap.metrics]

\* context_store.py:57-89: a new store on the file; with no file, or one that
\* json.load cannot read, it keeps the context it was constructed with
LoadStore(file) ==
    IF file = <<>> \/ ~file[1].valid THEN EmptyContext ELSE Load(file[1])

\* context_store.py:86-87: what open and json.load do with the file: open
\* raises an OSError on a file that cannot be read, json.load raises a
\* JSONDecodeError on a text that is not a JSON document
ReadError(file, readable) ==
    IF ~readable THEN "IOError"
    ELSE IF ~file[1].valid THEN "JSONDecodeError"
    ELSE None

\* Mutant: only the decode error is caught
CaughtDecodeOnly(error) == error = "JSONDecodeError"

\* context_store.py:88: except (json.JSONDecodeError, IOError)
Caught(error) == error \in {"JSONDecodeError", "IOError"}

\* context_store.py:80-89: how the construction of a store on the file goes
LoadOutcome(file, readable) ==
    IF file = <<>> THEN "no_file"
    ELSE IF ReadError(file, readable) = None THEN "loaded"
    ELSE IF Caught(ReadError(file, readable)) THEN "warned"
    ELSE "raised"
\* context_store.py:57-89: the context of the store that __init__ returns; when
\* _load prints its warning self.context is still the one built in 57-72
Construct(file, readable) ==
    IF LoadOutcome(file, readable) = "loaded" THEN Load(file[1]) ELSE EmptyContext

\* The file after a handler that ran without overlap and whose write succeeded.
\* Every store operation that changes the context goes on to _save, and one that
\* returns before _save (an id that is not found) changes nothing.
Persisted(ctx) == IF ctx = context THEN disk ELSE <<Dump(ctx)>>

\* A caller with no store operation in flight and none made yet
Idle ==
    [pc |-> "idle", name |-> None, tid |-> NoTask, wid |-> None,
     wrote |-> None, ret |-> None, http |-> NoResponse]

\* What a tool handler returns: its "success", and the task and the worker
\* it names
Result(tool, success, tid, wid) ==
    [tool |-> tool, success |-> success, task |-> tid, worker |-> wid]

\* No result kept: no call was made yet, or the last was of another tool
NoResult == Result(None, FALSE, NoTask, None)

\* ------------------------------------------------------------------ Init
Init ==
    /\ context = EmptyContext
    /\ pc = [w \in Workers |-> "loop"]
    /\ fetched = [w \in Workers |-> NoTask]
    /\ current_task = [w \in Workers |-> NoTask]
    /\ step = [w \in Workers |-> 0]
    /\ reports = [w \in Workers |-> 0]
    /\ returned = [t \in TaskIds |-> [w \in Workers |-> 0]]
    /\ faults = 0
    /\ nops = 0
    /\ lead = MaxTasks
    /\ is_running = FALSE
    /\ declared = <<>>
    /\ disk = <<>>
    /\ inflight = [c \in Callers |-> Idle]
    /\ boot = [n |-> 0, how |-> "no_file"]
    /\ is_active = [w \in Workers |-> TRUE]
    /\ project_status = <<>>
    /\ response = NoResult
    /\ lock = None

\* tools.py:134: a fresh id; ids are numbered in the order of creation
FreshId(ctx) == Len(ctx.order) + 1

\* The ids a caller can put into a dependency list: those of the tasks created
\* so far (the id of a task is drawn when it is created, tools.py:134), and ids
\* that name no task
Nameable(ctx, deps) == deps \subseteq DOMAIN ctx.tasks \cup {Missing}

\* ------------------------------------------- tool handlers, run as a whole
\* SpecStore: any sequence of at most MaxOps tool calls, one after the other.
Call(result) ==
    /\ nops < MaxOps
    /\ nops' = nops + 1
    /\ disk' = Persisted(context')
    /\ response' = result
    /\ UNCHANGED <<is_active, project_status, workerVars, leadVars, inflight, boot, lock>>

\* tools.py:132-148
CreateTask(deps, caps) ==
    /\ FreshId(context) \in TaskIds
    /\ Nameable(context, deps)
    /\ context' = StoreCreateTask(context, FreshId(context), deps, caps)
    /\ UNCHANGED returned
    /\ Call(NoResult)

\* tools.py:151-162
AssignTask(tid, wid) ==
    /\ context' = StoreAssignTask(context, tid, wid)
    /\ UNCHANGED returned
    /\ Call(NoResult)

\* tools.py:190-207
UpdateTaskStatus(tid, status, progress) ==
    /\ context' = StoreUpdateTaskStatus(context, tid, status, progress)
    /\ UNCHANGED returned
    /\ Call(NoResult)

\* tools.py:210-226
CompleteTask(tid) ==
    /\ context' = StoreUpdateTaskStatus(context, tid, "completed", 100)
    /\ UNCHANGED returned
    /\ Call(NoResult)

\* tools.py:229-245
FailTask(tid) ==
    /\ context' = StoreUpdateTaskStatus(context, tid, "failed", NoProgress)
    /\ UNCHANGED returned
    /\ Call(NoResult)

\* tools.py:165-187, the two store calls back to back, for a worker that sends
\* its capabilities (worker.py:230-236); with no task available it returns
\* success and task None before it calls assign_task
FetchTask(wid) ==
    LET task == FirstAvailable(context, WorkerCaps(wid)) IN
    /\ context' = IF task = NoTask THEN context ELSE StoreAssignTask(context, task, wid)
    /\ returned' = IF task = NoTask THEN returned
                   ELSE [returned EXCEPT ![task][wid] = @ + 1]
    /\ Call(Result("fetch_task", TRUE, task, wid))

\* The clock that add_conversation_entry reads (datetime.utcnow), here the
\* number of tool calls made before this one
Now == nops

\* tools.py:248-260
LogEvent(event_type) ==
    /\ Len(context.conversation_history) < MaxLog
    /\ context' = StoreAddConversationEntry(context, [event_type |-> event_type], Now)
    /\ UNCHANGED returned
    /\ Call(Result("log_event", TRUE, NoTask, None))

\* tools.py:263-284
RequestClarification(params) ==
    /\ Len(context.conversation_history) < MaxLog
    /\ context' = StoreAddConversationEntry(context,
          [type |-> "clarification_request", worker_id |-> params.worker_id,
           task_id |-> params.task_id, status |-> "pending"], Now)
    /\ UNCHANGED returned
    /\ Call(Result("request_clarification", TRUE, params.task_id, params.worker_id))

NextStore ==
    \/ \E deps \in DepChoices, caps \in CapChoices : CreateTask(deps, caps)
    \/ \E tid \in TaskIds, wid \in Workers : AssignTask(tid, wid)
    \/ \E tid \in TaskIds, status \in StatusInputs, progress \in ProgressInputs :
          UpdateTaskStatus(tid, status, progress)
    \/ \E tid \in TaskIds : CompleteTask(tid)
    \/ \E tid \in TaskIds : FailTask(tid)
    \/ \E wid \in Workers : FetchTask(wid)

SpecStore == Init /\ [][NextStore]_vars

\* SpecCreate: any sequence of at most MaxOps calls of the store's create_task,
\* whose task_id is an argument (context_store.py:118): the id of a task that
\* exists or one that names no task yet
StoreCreate(tid, deps, caps) ==
    /\ Nameable(context, deps)
    /\ context' = StoreCreateTask(context, tid, deps, caps)
    /\ UNCHANGED returned
    /\ Call(NoResult)

NextCreate == \E tid \in TaskIds, deps \in DepChoices, caps \in CapChoices : StoreCreate(tid, deps, caps)

SpecCreate == Init /\ [][NextCreate]_vars

\* SpecLog: the tool calls of SpecStore together with the two tools that write
\* to the conversation log, at most MaxLog entries
NextLog ==
    \/ NextStore
    \/ \E event_type \in Entries : LogEvent(event_type)
    \/ \E params \in ClarifyInputs : RequestClarification(params)

SpecLog == Init /\ [][NextLog]_vars

\* ------------------------------------------------ the run: Lead and workers
\* Each step below is one `async with self.lock` block together with the code
\* of the caller around it, up to the caller's next call.

\* lead.py:316-328: run_project sets is_running and goes on to seed the plan
LeadRunProject ==
    /\ ~is_running
    /\ declared = <<>>
    /\ is_running' = TRUE
    /\ UNCHANGED <<is_active, project_status, response, context, workerVars, returned, nops, lead, declared, diskVars>>

\* lead.py:203-234: one iteration of the loop over the plan's tasks; a call that
\* raises is logged and the loop goes on
LeadCreateTask(deps, caps, created) ==
    /\ is_running
    /\ lead > 0
    /\ Nameable(context, deps)
    /\ lead' = lead - 1
    /\ context' = IF created
                  THEN StoreCreateTask(context, FreshId(context), deps, caps)
                  ELSE context
    /\ disk' = Persisted(context')
    /\ UNCHANGED <<is_active, project_status, response, workerVars, returned, nops, is_running, declared, inflight, boot, lock>>

\* lead.py:263-314: one iteration of monitor_progress, entered once the plan is
\* seeded (lead.py:328, 340).  The poll is one lock block of the store; a poll
\* that raises is logged and the loop sleeps and polls again.
LeadMonitor(polled) ==
    /\ is_running
    /\ lead = 0
    /\ IF polled /\ DeclareCondition(GetProjectStatus(context).metrics)
       THEN /\ is_running' = FALSE
            /\ declared' = <<GetProjectStatus(context).metrics>>
       ELSE UNCHANGED <<is_running, declared>>
    /\ UNCHANGED <<is_active, project_status, response, context, workerVars, returned, nops, lead, diskVars>>

\* worker.py:198-206, 229-236 and tools.py:167-178: the worker, still active at
\* the top of its loop, asks for a task
\* and the handler reads the available tasks; with none the worker sleeps and
\* polls again
FetchGetAvailable(w) ==
    /\ pc[w] = "loop"
    /\ is_active[w]
    /\ fetched' = [fetched EXCEPT ![w] = FirstAvailable(context, WorkerCaps(w))]
    /\ pc' = [pc EXCEPT ![w] =
                IF FirstAvailable(context, WorkerCaps(w)) = NoTask
                THEN "loop" ELSE "fetch_assign"]
    /\ UNCHANGED <<is_active, project_status, response, context, current_task, step, reports, returned, faults, nops, leadVars, diskVars>>

\* A call or a log write raises (failed), within the budget of the model
Fault(failed) ==
    /\ failed => faults < MaxFaults
    /\ faults' = IF failed THEN faults + 1 ELSE faults

\* tools.py:180-187, worker.py:238-261 and 270-271: the handler assigns the task
\* it read and returns it; the worker takes it as its current task, or gets
\* None when the call or the log write raised
FetchAssign(w, delivered) ==
    /\ pc[w] = "fetch_assign"
    /\ Fault(~delivered)
    /\ context' = StoreAssignTask(context, fetched[w], w)
    /\ returned' = [returned EXCEPT ![fetched[w]][w] = @ + 1]
    /\ fetched' = [fetched EXCEPT ![w] = NoTask]
    /\ current_task' = [current_task EXCEPT ![w] = IF delivered THEN fetched[w] ELSE @]
    /\ pc' = [pc EXCEPT ![w] = IF delivered THEN "task_started" ELSE "loop"]
    /\ disk' = Persisted(context')
    /\ UNCHANGED <<is_active, project_status, response, step, reports, nops, leadVars, inflight, boot, lock>>

\* What a tool call does to the store: nothing when the request was lost
Reached(outcome, ctx) == IF outcome = "lost_request" THEN context ELSE ctx

\* worker.py:273-290: the task_started log write (outside the try: when it
\* raises, the error goes to work_loop), then update_task_status(in_progress, 0)
ExecuteStart(w, logged, outcome) ==
    /\ pc[w] = "task_started"
    /\ Fault(~logged \/ outcome # "ok")
    /\ IF ~logged
       THEN /\ outcome = "ok"
            /\ pc' = [pc EXCEPT ![w] = "loop_except"]
            /\ UNCHANGED <<context, step>>
       ELSE /\ context' = Reached(outcome,
                 StoreUpdateTaskStatus(context, current_task[w], "in_progress", 0))
            /\ pc' = [pc EXCEPT ![w] = IF outcome = "ok" THEN "iterate" ELSE "except"]
            /\ step' = [step EXCEPT ![w] = IF outcome = "ok" THEN 1 ELSE @]
    /\ disk' = Persisted(context')
    /\ UNCHANGED <<is_active, project_status, response, fetched, current_task, reports, returned, nops, leadVars, inflight, boot, lock>>

\* worker.py:362
Progress(s) == (s * 100) \div steps

\* worker.py:361-384: one iteration of execute_task_iterative; its loop variable
\* is gone once the function returns or raises.  What it raises is caught by the
\* except of execute_task_with_logging (worker.py:314), entered here as
\* "executor_raised"; the other statements of the try enter it as "except".
ExecuteIterate(w, logged, outcome) ==
    /\ pc[w] = "iterate"
    /\ Fault(~logged \/ outcome # "ok")
    /\ IF ~logged
       THEN /\ outcome = "ok"
            /\ pc' = [pc EXCEPT ![w] = "executor_raised"]
            /\ step' = [step EXCEPT ![w] = 0]
            /\ UNCHANGED context
       ELSE /\ context' = Reached(outcome,
                 StoreUpdateTaskStatus(context, current_task[w], "in_progress",
                                       Progress(step[w])))
            /\ pc' = [pc EXCEPT ![w] =
                        IF outcome # "ok" THEN "executor_raised"
                        ELSE IF step[w] = steps THEN "complete" ELSE "iterate"]
            /\ step' = [step EXCEPT ![w] =
                        IF outcome = "ok" /\ step[w] < steps THEN @ + 1 ELSE 0]
    /\ disk' = Persisted(context')
    /\ UNCHANGED <<is_active, project_status, response, fetched, current_task, reports, returned, nops, leadVars, inflight, boot, lock>>

\* worker.py:295-312: complete_task, then the task_completed log write
ExecuteComplete(w, outcome, logged) ==
    /\ pc[w] = "complete"
    /\ Fault(~logged \/ outcome # "ok")
    /\ outcome # "ok" => logged
    /\ reports' = [reports EXCEPT ![w] = @ + 1]
    /\ context' = Reached(outcome,
          StoreUpdateTaskStatus(context, current_task[w], "completed", 100))
    /\ pc' = [pc EXCEPT ![w] = IF outcome = "ok" /\ logged THEN "finally" ELSE "except"]
    /\ disk' = Persisted(context')
    /\ UNCHANGED <<is_active, project_status, response, fetched, current_task, step, returned, nops, leadVars, inflight, boot, lock>>

\* worker.py:314-334: fail_task, then the task_failed log write; an error raised
\* here leaves through the finally block and goes on to work_loop
ExecuteExcept(w, outcome) ==
    /\ pc[w] \in {"except", "executor_raised"}
    /\ Fault(outcome # "ok")
    /\ reports' = [reports EXCEPT ![w] = @ + 1]
    /\ context' = Reached(outcome,
          StoreUpdateTaskStatus(context, current_task[w], "failed", NoProgress))
    /\ pc' = [pc EXCEPT ![w] = IF outcome = "ok" THEN "finally" ELSE "finally_raised"]
    /\ disk' = Persisted(context')
    /\ UNCHANGED <<is_active, project_status, response, fetched, current_task, step, returned, nops, leadVars, inflight, boot, lock>>

\* worker.py:336-337, then back to work_loop: to the top of its loop, or with
\* the error of the except block to its handler
ExecuteFinally(w) ==
    /\ pc[w] \in {"finally", "finally_raised"}
    /\ current_task' = [current_task EXCEPT ![w] = NoTask]
    /\ step' = [step EXCEPT ![w] = 0]
    /\ reports' = [reports EXCEPT ![w] = 0]
    /\ pc' = [pc EXCEPT ![w] = IF pc[w] = "finally" THEN "loop" ELSE "loop_except"]
    /\ UNCHANGED <<is_active, project_status, response, context, fetched, returned, faults, nops, leadVars, diskVars>>

\* worker.py:211-220: work_loop logs the error, sleeps 5 s and goes to the top of
\* its loop.  The log write is inside the handler: when it raises, the error
\* leaves work_loop and the worker's task of the event loop is done.
LoopExcept(w, logged) ==
    /\ pc[w] = "loop_except"
    /\ Fault(~logged)
    /\ pc' = [pc EXCEPT ![w] = IF logged THEN "loop" ELSE "dead"]
    /\ UNCHANGED <<is_active, project_status, response, context, fetched, current_task, step, reports, returned, nops, leadVars, diskVars>>

\* The steps of the Lead
LeadStep ==
    \/ LeadRunProject
    \/ \E deps \in PlanDeps, caps \in PlanCaps, created \in BOOLEAN :
          LeadCreateTask(deps, caps, created)
    \/ \E polled \in BOOLEAN : LeadMonitor(polled)

Next ==
    \/ LeadRunProject
    \/ \E deps \in PlanDeps, caps \in PlanCaps, created \in BOOLEAN :
          LeadCreateTask(deps, caps, created)
    \/ \E polled \in BOOLEAN : LeadMonitor(polled)
    \/ \E w \in Workers : FetchGetAvailable(w)
    \/ \E w \in Workers, delivered \in BOOLEAN : FetchAssign(w, delivered)
    \/ \E w \in Workers, logged \in BOOLEAN, outcome \in CallOutcomes :
          ExecuteStart(w, logged, outcome)
    \/ \E w \in Workers, logged \in BOOLEAN, outcome \in CallOutcomes :
          ExecuteIterate(w, logged, outcome)
    \/ \E w \in Workers, outcome \in CallOutcomes, logged \in BOOLEAN :
          ExecuteComplete(w, outcome, logged)
    \/ \E w \in Workers, outcome \in CallOutcomes : ExecuteExcept(w, outcome)
    \/ \E w \in Workers : ExecuteFinally(w)
    \/ \E w \in Workers, logged \in BOOLEAN : LoopExcept(w, logged)

Spec == Init /\ [][Next]_vars

\* One worker's steps.  A worker's work_loop is a task of the event loop
\* (main.py:309-314) that is resumed whenever its await completes, so a worker
\* that can take a step eventually takes one.
WorkerStep(w) ==
    \/ FetchGetAvailable(w)
    \/ \E delivered \in BOOLEAN : FetchAssign(w, delivered)
    \/ \E logged \in BOOLEAN, outcome \in CallOutcomes : ExecuteStart(w, logged, outcome)
    \/ \E logged \in BOOLEAN, outcome \in CallOutcomes : ExecuteIterate(w, logged, outcome)
    \/ \E outcome \in CallOutcomes, logged \in BOOLEAN : ExecuteComplete(w, outcome, logged)
    \/ \E outcome \in CallOutcomes : ExecuteExcept(w, outcome)
    \/ ExecuteFinally(w)
    \/ \E logged \in BOOLEAN : LoopExcept(w, logged)

\* lead.run_project is awaited by main (main.py:335) and is resumed likewise.
SpecFair == Spec /\ WF_vars(LeadStep) /\ \A w \in Workers : WF_vars(WorkerStep(w))

\* ------------------------------------------------------ runs without failure
\* SpecLive: the runs of the Lead and the workers in which no call and no log
\* write raises: every create_task call creates its task, every poll returns,
\* every worker call is answered and every log line is written.
LeadLive ==
    \/ LeadRunProject
    \/ \E deps \in PlanDeps, caps \in PlanCaps : LeadCreateTask(deps, caps, TRUE)
    \/ LeadMonitor(TRUE)

WorkerLive(w) ==
    \/ FetchGetAvailable(w)
    \/ FetchAssign(w, TRUE)
    \/ ExecuteStart(w, TRUE, "ok")
    \/ ExecuteIterate(w, TRUE, "ok")
    \/ ExecuteComplete(w, "ok", TRUE)
    \/ ExecuteFinally(w)

NextLive ==
    \/ LeadLive
    \/ \E w \in Workers : WorkerLive(w)

\* The Lead and each worker are tasks of one event loop (main.py:309-314, 335):
\* one that can take a step eventually takes it.
SpecLive ==
    /\ Init
    /\ [][NextLive]_vars
    /\ WF_vars(LeadLive)
    /\ \A w \in Workers : WF_vars(WorkerLive(w))

\* ------------------------------------------------------------------ shutdown
\* SpecStop: the run of Spec together with the shutdown of main.py:338-344.

\* work_loop was left by an error or was cancelled
Done(w) == pc[w] \in {"dead", "cancelled"}

\* main.py:338-344, the finally that follows run_project once the plan is
\* seeded: monitor_progress has returned (lead.py:299-302) or was interrupted
\* while it polled (main.py:336-338).
\*   main.py:340-341  stop() of every worker sets is_active to False and writes
\*                    one log line (worker.py:407-417).  JSONLogger.log
\*                    (json_logger.py:122-145) has no suspension point, so no
\*                    worker runs between one stop() and the next, nor before
\*   main.py:212-214  cleanup cancels every worker task that is not done.
\* CancelledError is raised at the await the worker is suspended in; it is no
\* Exception, so neither the except of execute_task_with_logging
\* (worker.py:314) nor the one of work_loop (worker.py:211) catches it, and of
\* the worker's code only the finally of worker.py:336-337 runs.  The handler of
\* a fetch_task call in flight goes down with the server task (main.py:209-210).
Shutdown ==
    /\ lead = 0
    /\ is_running \/ declared # <<>>
    /\ \E w \in Workers : is_active[w]
    /\ is_active' = [w \in Workers |-> FALSE]
    /\ pc' = [w \in Workers |-> IF Done(w) THEN pc[w] ELSE "cancelled"]
    /\ current_task' = [w \in Workers |-> IF Done(w) THEN current_task[w] ELSE NoTask]
    /\ step' = [w \in Workers |-> IF Done(w) THEN step[w] ELSE 0]
    /\ reports' = [w \in Workers |-> IF Done(w) THEN reports[w] ELSE 0]
    /\ fetched' = [w \in Workers |-> IF Done(w) THEN fetched[w] ELSE NoTask]
    /\ UNCHANGED <<project_status, response, context, returned, faults, nops, leadVars, diskVars>>

NextStop ==
    \/ Next
    \/ Shutdown

SpecStop == Init /\ [][NextStop]_vars

\* ------------------------------- store operations, one lock block at a time
\* SpecDisk: the callers of one store, each one running one mutating operation
\* after the other.  An operation is two `async with self.lock` blocks: the one
\* that changes the context, and the one of _save (context_store.py:93-95) that
\* it awaits after the first has released the lock.  At most MaxOps operations are
\* started and at most MaxFaults writes fail.

\* Mutant: the block is left with the lock still held
ReleaseNever(c) == c

\* context_store.py:56 and every `async with self.lock`: an asyncio.Lock is
\* acquired when nobody holds it (a caller that finds it held waits; the lock is
\* not reentrant) and is released where the block ends.  No block awaits
\* anything while it holds the lock.
Acquire(c) == lock = None

Release(c) == None

\* Mutant: no lookup, the operation goes on with any id
FoundAlways(ctx, name, tid, wid) == TRUE

\* context_store.py:149-150, 175-176, 218-219: the lookups that return False
Found(ctx, name, tid, wid) ==
    CASE name \in {"assign_task", "update_task_status"} -> TaskExists(ctx, tid)
      [] name = "update_worker_status" -> wid \in DOMAIN ctx.workers
      [] OTHER -> TRUE

\* What each operation returns after _save: context_store.py:144, 164, 195,
\* 213, 227 and, with no return statement, 303
ReturnValue(name) ==
    CASE name = "create_task" -> "task"
      [] name = "register_worker" -> "worker"
      [] name = "add_conversation_entry" -> None
      [] OTHER -> "True"

\* Mutant: the operation returns its value whatever the write did
SaveResultSwallowed(outcome, value) == value

\* context_store.py:142 and the like: `await self._save()` has no try around it,
\* so what open or json.dump raises leaves the operation in place of its value
SaveResult(outcome, value) == IF outcome = "written" THEN value ELSE "raised"

\* The operations that a tool runs (tools.py:143, 156, 196, 253) and the
\* tool's name
ToolOf(name) ==
    CASE name = "create_task" -> "create_task"
      [] name = "assign_task" -> "assign_task"
      [] name = "update_task_status" -> "update_task_status"
      [] name = "add_conversation_entry" -> "log_event"
      [] OTHER -> None

\* server.py:104-143: 200 with the handler's result, False included (tools.py:
\* 158-162, 202-207); 500 when the handler raised.  No tool handler catches.
HandleToolCall(name, ret) ==
    IF ToolOf(name) = None THEN NoResponse
    ELSE IF ret = "raised" THEN 500 ELSE 200

\* The first block of an operation: the lookup, and the change when it is found
Begin(c, name, tid, wid, changed) ==
    /\ inflight[c].pc = "idle"
    /\ nops < MaxOps
    /\ Acquire(c)
    /\ lock' = Release(c)
    /\ nops' = nops + 1
    /\ IF Found(context, name, tid, wid)
       THEN /\ context' = changed
            /\ inflight' = [inflight EXCEPT ![c] =
                  [pc |-> "save", name |-> name, tid |-> tid, wid |-> wid,
                   wrote |-> None, ret |-> None, http |-> NoResponse]]
       ELSE /\ context' = context
            /\ inflight' = [inflight EXCEPT ![c] =
                  [pc |-> "idle", name |-> name, tid |-> tid, wid |-> wid,
                   wrote |-> None, ret |-> "False",
                   http |-> HandleToolCall(name, "False")]]
    /\ UNCHANGED <<is_active, project_status, response, disk, boot, workerVars, leadVars, returned>>

\* context_store.py:139-141
OpCreateTask(c) ==
    /\ FreshId(context) \in TaskIds
    /\ Begin(c, "create_task", FreshId(context), None,
             StoreCreateTask(context, FreshId(context), {}, {}))

\* context_store.py:148-162
OpAssignTask(c, tid, wid) ==
    /\ tid \in TaskIds
    /\ Begin(c, "assign_task", tid, wid, StoreAssignTask(context, tid, wid))

\* context_store.py:174-193
OpUpdateTaskStatus(c, tid, status) ==
    /\ tid \in TaskIds
    /\ Begin(c, "update_task_status", tid, None,
             StoreUpdateTaskStatus(context, tid, status, NoProgress))

\* context_store.py:209-210
OpRegisterWorker(c, wid) ==
    /\ wid \in Workers
    /\ Begin(c, "register_worker", NoTask, wid, StoreRegisterWorker(context, wid))

\* context_store.py:217-225
OpUpdateWorkerStatus(c, wid, status) ==
    /\ wid \in Workers
    /\ Begin(c, "update_worker_status", NoTask, wid,
             StoreUpdateWorkerStatus(context, wid, status))

\* context_store.py:298-302
OpAddConversationEntry(c, entry) ==
    /\ Len(context.conversation_history) < MaxEntries
    /\ Begin(c, "add_conversation_entry", NoTask, None,
             StoreAddConversationEntry(context, entry, nops))

\* context_store.py:93-95, the second block: open(path, 'w') empties the file
\* and json.dump writes the context of this moment.  open can raise and leave
\* the file as it was; json.dump or the close can raise and leave a part of the
\* text.  Then the operation's caller gets the exception (server.py:128-143).
Save(c, outcome) ==
    /\ inflight[c].pc = "save"
    /\ Acquire(c)
    /\ lock' = Release(c)
    /\ outcome # "written" => faults < MaxFaults
    /\ faults' = IF outcome = "written" THEN faults ELSE faults + 1
    /\ disk' = CASE outcome = "written" -> <<Dump(context)>>
                 [] outcome = "open_failed" -> disk
                 [] outcome = "dump_failed" -> <<Truncated>>
    /\ LET name == inflight[c].name
           ret == SaveResult(outcome, ReturnValue(name))
       IN inflight' = [inflight EXCEPT
              ![c].pc = "idle",
              ![c].wrote = outcome,
              ![c].ret = ret,
              ![c].http = HandleToolCall(name, ret)]
    /\ UNCHANGED <<is_active, project_status, response, context, pc, fetched, current_task, step, reports,
                   returned, nops, leadVars, boot>>

\* context_store.py:48-81 and main.py: the server process ends, at any moment,
\* and a new one constructs its store on the same file; the operations that
\* were in flight are gone with the old process.  The file may have become
\* unreadable in between (a failure of open, counted in faults).
Restart(readable) ==
    /\ boot.n < MaxBoots
    /\ ~readable => (disk # <<>> /\ faults < MaxFaults)
    /\ faults' = IF readable THEN faults ELSE faults + 1
    /\ context' = Construct(disk, readable)
    /\ boot' = [n |-> boot.n + 1, how |-> LoadOutcome(disk, readable)]
    /\ inflight' = [c \in Callers |-> Idle]
    /\ lock' = None
    /\ UNCHANGED <<is_active, project_status, response, disk, pc, fetched, current_task, step, reports,
                   returned, nops, leadVars>>

NextDisk ==
    \/ \E c \in Callers : OpCreateTask(c)
    \/ \E c \in Callers, tid \in TaskIds, wid \in Workers : OpAssignTask(c, tid, wid)
    \/ \E c \in Callers, tid \in TaskIds, status \in DiskStatusInputs :
          OpUpdateTaskStatus(c, tid, status)
    \/ \E c \in Callers, wid \in Workers : OpRegisterWorker(c, wid)
    \/ \E c \in Callers, wid \in Workers, status \in WorkerStatusInputs :
          OpUpdateWorkerStatus(c, wid, status)
    \/ \E c \in Callers, entry \in Entries : OpAddConversationEntry(c, entry)
    \/ \E c \in Callers, outcome \in SaveOutcomes : Save(c, outcome)
    \/ \E readable \in BOOLEAN : Restart(readable)

SpecDisk == Init /\ [][NextDisk]_vars

\* The second block of an operation in flight
SaveStep(c) == \E outcome \in SaveOutcomes : Save(c, outcome)

\* Each operation is a coroutine of the server's event loop (server.py:104-143),
\* resumed when the lock it waits for is free: a caller whose _save can run
\* eventually runs it.
SpecDiskFair == SpecDisk /\ \A c \in Callers : WF_vars(SaveStep(c))

\* ------------------------------------------------ get_project_status alone
\* SpecStatus: get_project_status applied to the store as it is after n
\* create_task calls, k complete_task calls and f fail_task calls on distinct
\* tasks, for every n up to MaxStatusTasks.

\* context_store.py:129-141, 178-192: the context after those calls
StoreAfter(n, k, f) ==
    [EmptyContext EXCEPT
        !.tasks = [i \in 1..n |->
            [NewTask({}, {}) EXCEPT
                !.status = IF i <= k THEN "completed"
                           ELSE IF i <= k + f THEN "failed" ELSE "pending",
                !.progress = IF i <= k THEN 100 ELSE 0]],
        !.order = [i \in 1..n |-> i],
        !.metrics = [total_tasks |-> n, completed_tasks |-> k, failed_tasks |-> f,
                     end_time |-> None]]

InitStatus ==
    /\ \E n \in 0..MaxStatusTasks : \E k \in 0..n : \E f \in 0..(n - k) :
          context = StoreAfter(n, k, f)
    /\ pc = [w \in Workers |-> "loop"]
    /\ fetched = [w \in Workers |-> NoTask]
    /\ current_task = [w \in Workers |-> NoTask]
    /\ step = [w \in Workers |-> 0]
    /\ reports = [w \in Workers |-> 0]
    /\ returned = [t \in TaskIds |-> [w \in Workers |-> 0]]
    /\ faults = 0
    /\ nops = 0
    /\ lead = MaxTasks
    /\ is_running = FALSE
    /\ declared = <<>>
    /\ disk = <<>>
    /\ inflight = [c \in Callers |-> Idle]
    /\ boot = [n |-> 0, how |-> "no_file"]
    /\ is_active = [w \in Workers |-> TRUE]
    /\ project_status = <<>>
    /\ response = NoResult
    /\ lock = None

\* context_store.py:262-294 and tools.py:287-295
GetStatus ==
    /\ project_status' = <<GetProjectStatus(context)>>
    /\ UNCHANGED <<context, workerVars, leadVars, diskVars, returned, nops, is_active,
                   response>>

SpecStatus == InitStatus /\ [][GetStatus]_vars

\* ------------------------------------------------------------------ claims
Tasks == context.tasks
Ids == DOMAIN context.tasks
Available(caps) == GetAvailableTasks(context, caps)
AvailableSet(caps) == LET a == Available(caps) IN {a[i] : i \in 1..Len(a)}
RECURSIVE SumOver(_, _)
SumOver(f, S) ==
    IF S = {} THEN 0
    ELSE LET x == CHOOSE y \in S : TRUE IN f[x] + SumOver(f, S \ {x})

\* C1: under concurrent fetch_task calls, a task is returned as the claimed
\* task to at most one of the callers.
NoDoubleAssignment ==
    \A t \in TaskIds : Cardinality({w \in Workers : returned[t][w] > 0}) <= 1

\* C2: over a whole run of workers following the worker loop, no task is
\* returned as claimed by fetch_task more than once.
ExactlyOnceAssignment ==
    \A t \in TaskIds : SumOver(returned[t], Workers) <= 1

\* C3: for every capability set, get_available_tasks returns no task that has
\* a dependency whose task is missing or not completed.
DependencyGating ==
    \A caps \in SUBSET Caps : \A t \in AvailableSet(caps) :
        \A dep \in Tasks[t].dependencies :
            dep \in Ids /\ Tasks[dep].status = "completed"

\* C3 witness: task 2 waits for task 1, which is not completed; another task is
\* returned and task 2 is not, although its status and capabilities would pass.
DependencyGatingWitness ==
    /\ 2 \in Ids
    /\ Tasks[2].status = "pending"
    /\ Tasks[2].dependencies = {1}
    /\ Tasks[2].required_capabilities = {}
    /\ Tasks[1].status = "pending"
    /\ Available({}) = <<1>>

\* C4: a task whose required_capabilities is non-empty and disjoint from the
\* worker's capabilities is not returned by get_available_tasks for those
\* capabilities, and fetch_task never returns it to such a worker.
CapabilityGating ==
    /\ \A caps \in SUBSET Caps : \A t \in AvailableSet(caps) :
          \/ Tasks[t].required_capabilities = {}
          \/ Tasks[t].required_capabilities \cap caps # {}
    /\ \A t \in Ids, w \in Workers :
          returned[t][w] > 0 =>
              \/ Tasks[t].required_capabilities = {}
              \/ Tasks[t].required_capabilities \cap WorkerCaps(w) # {}

\* C4 witness: task 1 requires a capability w2 lacks and task 2 requires none;
\* fetch_task gave task 2 to w2, passing over task 1, and gave task 1 to w1.
CapabilityGatingWitness ==
    /\ 2 \in Ids
    /\ Tasks[1].required_capabilities = {"python"}
    /\ Tasks[1].dependencies = {}
    /\ Tasks[2].required_capabilities = {}
    /\ returned[2]["w2"] = 1 /\ returned[2]["w1"] = 0
    /\ returned[1]["w1"] = 1 /\ returned[1]["w2"] = 0

\* C5: get_available_tasks(caps) returns exactly the tasks that are pending,
\* have every dependency completed and have no required capability or share
\* one with caps, each once.
AvailableExactly ==
    \A caps \in SUBSET Caps :
        LET a == Available(caps) IN
        /\ {a[i] : i \in 1..Len(a)} =
              {t \in Ids :
                  /\ Tasks[t].status = "pending"
                  /\ \A dep \in Tasks[t].dependencies :
                        dep \in Ids /\ Tasks[dep].status = "completed"
                  /\ \/ Tasks[t].required_capabilities = {}
                     \/ Tasks[t].required_capabilities \cap caps # {}}
        /\ \A i, j \in 1..Len(a) : a[i] = a[j] => i = j

\* C5 witness: two tasks are returned for one capability set while another
\* capability set gets only one of them.
AvailableExactlyWitness ==
    /\ Available({"python"}) = <<1, 2>>
    /\ Available({"docker"}) = <<2>>

\* C6: a task is moved to assigned (by assign_task or inside fetch_task) only
\* when it is pending and every dependency is completed at that moment.
AssignOnlyEligible ==
    [][\A t \in Ids :
          (context'.tasks[t].status = "assigned" /\ context'.tasks[t] # Tasks[t]) =>
              /\ Tasks[t].status = "pending"
              /\ \A dep \in Tasks[t].dependencies :
                    dep \in Ids /\ Tasks[dep].status = "completed"]_vars

\* C7: completed_tasks + failed_tasks <= total_tasks after any sequence of
\* store operations.
MetricConsistency ==
    context.metrics.completed_tasks + context.metrics.failed_tasks
        <= context.metrics.total_tasks

\* C8: completed_tasks (failed_tasks) is incremented only by a transition of a
\* task into completed (failed): repeating the terminal status does not count
\* again.
IdempotentTerminal ==
    [][/\ context'.metrics.completed_tasks # context.metrics.completed_tasks =>
             \E t \in Ids : /\ Tasks[t].status # "completed"
                            /\ context'.tasks[t].status = "completed"
       /\ context'.metrics.failed_tasks # context.metrics.failed_tasks =>
             \E t \in Ids : /\ Tasks[t].status # "failed"
                            /\ context'.tasks[t].status = "failed"]_vars

\* C9: a task's status changes only along pending -> assigned -> in_progress ->
\* completed or failed, and blocked is never reached.
StatusStep ==
    {<<"pending", "assigned">>, <<"assigned", "in_progress">>,
     <<"in_progress", "completed">>, <<"in_progress", "failed">>}

StatusMonotonic ==
    [][\A t \in Ids :
          \/ context'.tasks[t].status = Tasks[t].status
          \/ <<Tasks[t].status, context'.tasks[t].status>> \in StatusStep]_vars

\* C10: on every path through execute_task_with_logging the worker sends
\* exactly one terminal report (complete_task or fail_task) for the task.
ExactlyOneTerminalReport ==
    \A w \in Workers :
        pc[w] \in {"finally", "finally_raised", "loop_except"} => reports[w] = 1

\* C11: every task that a worker moved to in_progress eventually reaches
\* completed or failed in the store while the workers keep running, also when
\* a coordination call or a log write raises.
StatusOf(t) == IF t \in Ids THEN Tasks[t].status ELSE None

NoTaskStuckInProgress ==
    \A t \in TaskIds :
        (StatusOf(t) = "in_progress") ~> (StatusOf(t) \in {"completed", "failed"})

\* C12: the Lead declares completion only on a status poll that shows
\* completed_tasks + failed_tasks >= total_tasks and total_tasks > 0.
DeclareOnlyWhenDone ==
    /\ declared # <<>> =>
          /\ declared[1].completed_tasks + declared[1].failed_tasks
                >= declared[1].total_tasks
          /\ declared[1].total_tasks > 0
    /\ (lead = 0 /\ ~is_running) <=> declared # <<>>

\* C12 witness: the Lead has stopped on a poll that counted a failed task.
DeclareOnlyWhenDoneWitness ==
    /\ declared # <<>>
    /\ ~is_running
    /\ declared[1].failed_tasks > 0
    /\ declared[1].completed_tasks > 0

\* C13: once the plan is seeded and every task in the store is completed or
\* failed (so total_tasks > 0), the Lead eventually declares completion.
AllTerminal ==
    /\ lead = 0
    /\ Ids # {}
    /\ \A t \in Ids : Tasks[t].status \in {"completed", "failed"}

ProgressIffCompleted ==
    \A t \in Ids : Tasks[t].progress = 100 <=> Tasks[t].status = "completed"

\* C15: in every reachable state a task has assigned_to set if and only if its
\* status is assigned, in_progress, completed or failed.
AssignedToIffClaimed ==
    \A t \in Ids :
        Tasks[t].assigned_to # None
            <=> Tasks[t].status \in {"assigned", "in_progress", "completed", "failed"}

\* C17: what one get_project_status call returns comes from one store state in
\* which every mutation is wholly applied: the counts by status add up to the
\* tasks and to total_tasks, no status counts more tasks than the store holds
\* in it, the tasks counted completed (failed) have all been counted in
\* completed_tasks (failed_tasks), and overall_progress is that of the
\* returned metrics.
CountOf(counts, st) == IF st \in DOMAIN counts THEN counts[st] ELSE 0

Unsaved == {c \in Callers : inflight[c].pc = "save"}

Quiescent == Unsaved = {}

\* C16: a mutating store operation holds the lock from its first read through
\* its write to the file: while one operation is between its change of the
\* context and its _save, no other store operation starts.
PersistBeforeNextOperation ==
    [][Unsaved # {} => nops' = nops]_vars

\* C18: snapshot round trip.  When no store operation is in flight and no
\* write has failed, a new store constructed on the file has the tasks (in the
\* same order), the workers, the metrics and the conversation history of the
\* store that wrote it, whatever the overlap of the operations was.
SnapshotRoundTrip ==
    (Quiescent /\ faults = 0) => LoadStore(disk) = context

\* C18 witness: a task, a worker and a conversation entry were stored by
\* operations that have all returned, and the file was written.
SnapshotRoundTripWitness ==
    /\ Quiescent
    /\ faults = 0
    /\ disk # <<>>
    /\ Ids # {}
    /\ DOMAIN context.workers # {}
    /\ context.conversation_history # <<>>

\* The call that a step starts, for the caller c: its name and arguments are
\* those of inflight'[c]
Starts(c) == nops' # nops /\ inflight[c].pc = "idle" /\ inflight'[c] # Idle
             /\ \A d \in Callers \ {c} : inflight'[d] = inflight[d]

\* The operation returned False at once and nothing of the store changed
ReturnsFalse(c) ==
    /\ inflight'[c].pc = "idle"
    /\ inflight'[c].ret = "False"
    /\ context' = context
    /\ disk' = disk

\* C19: assign_task and update_task_status with a task id that names no task,
\* and update_worker_status with a worker id that names no worker, return False
\* without raising and leave the tasks, the workers, the metrics and the file
\* as they were.
NotFoundReturnsFalse ==
    [][\A c \in Callers :
          (/\ Starts(c)
           /\ \/ /\ inflight'[c].name \in {"assign_task", "update_task_status"}
                 /\ ~TaskExists(context, inflight'[c].tid)
              \/ /\ inflight'[c].name = "update_worker_status"
                 /\ inflight'[c].wid \notin DOMAIN context.workers)
          => ReturnsFalse(c)]_vars

\* C19 witness: assign_task returned False for an id that names no task, in a
\* store that holds a task.
NotFoundReturnsFalseWitness ==
    \E c \in Callers :
        /\ inflight[c].name = "assign_task"
        /\ inflight[c].pc = "idle"
        /\ inflight[c].ret = "False"
        /\ ~TaskExists(context, inflight[c].tid)
        /\ Ids # {}

\* C19 as stated: an operation that is given a task id or a worker id that
\* names nothing returns False and changes nothing; this counts the worker id
\* of assign_task.
UnknownIdReturnsFalse ==
    [][\A c \in Callers :
          (/\ Starts(c)
           /\ \/ /\ inflight'[c].name \in {"assign_task", "update_task_status"}
                 /\ ~TaskExists(context, inflight'[c].tid)
              \/ /\ inflight'[c].name \in {"assign_task", "update_worker_status"}
                 /\ inflight'[c].wid \notin DOMAIN context.workers)
          => ReturnsFalse(c)]_vars

\* C20: an operation whose write to the file failed raises to its caller and
\* the caller of its tool gets status 500; an operation that returned a value
\* after its change of the context has written the file.
WriteFailurePropagates ==
    \A c \in Callers :
        /\ inflight[c].wrote \in SaveOutcomes \ {"written"} =>
              /\ inflight[c].ret = "raised"
              /\ ToolOf(inflight[c].name) # None => inflight[c].http = 500
        /\ (inflight[c].pc = "idle" /\ inflight[c].http = 200
              /\ inflight[c].ret # "False") => inflight[c].wrote = "written"

\* C20 witness: the write of an update_task_status failed after the file was
\* opened, and the caller of the tool was answered 500.
WriteFailurePropagatesWitness ==
    \E c \in Callers :
        /\ inflight[c].name = "update_task_status"
        /\ inflight[c].wrote = "dump_failed"
        /\ inflight[c].ret = "raised"
        /\ inflight[c].http = 500
        /\ disk = <<Truncated>>

\* The empty initial state: no tasks, no workers, no conversation entries and
\* every counter 0
IsEmptyState(ctx) ==
    /\ DOMAIN ctx.tasks = {}
    /\ ctx.order = <<>>
    /\ DOMAIN ctx.workers = {}
    /\ ctx.conversation_history = <<>>
    /\ ctx.metrics.total_tasks = 0
    /\ ctx.metrics.completed_tasks = 0
    /\ ctx.metrics.failed_tasks = 0

OverallProgressRounded ==
    project_status # <<>> =>
        LET r == project_status[1]
            m == r.metrics
            d == r.overall_progress * m.total_tasks - 10000 * m.completed_tasks
        IN /\ m.total_tasks = 0 => r.overall_progress = 0
           /\ m.total_tasks > 0 => (2 * d <= m.total_tasks /\ -2 * d <= m.total_tasks)

\* C22 witness: one task of three is completed and the result says 33.33.
OverallProgressRoundedWitness ==
    /\ project_status # <<>>
    /\ project_status[1].metrics.total_tasks = 3
    /\ project_status[1].metrics.completed_tasks = 1
    /\ project_status[1].overall_progress = 3333

\* C22 as stated: overall_progress is the quotient completed_tasks /
\* total_tasks * 100 itself.
OverallProgressExact ==
    project_status # <<>> =>
        LET r == project_status[1]
            m == r.metrics
        IN /\ m.total_tasks = 0 => r.overall_progress = 0
           /\ m.total_tasks > 0 =>
                 r.overall_progress * m.total_tasks = 10000 * m.completed_tasks

\* The tasks that are eligible for a worker with the capabilities caps: pending,
\* every dependency a completed task, and no required capability or one of caps
EligibleFor(caps) ==
    {t \in Ids :
        /\ Tasks[t].status = "pending"
        /\ \A dep \in Tasks[t].dependencies : dep \in Ids /\ Tasks[dep].status = "completed"
        /\ \/ Tasks[t].required_capabilities = {}
           \/ Tasks[t].required_capabilities \cap caps # {}}

\* The place of a task in the order of creation
Pos(t) == CHOOSE i \in 1..Len(context.order) : context.order[i] = t

\* The step is a fetch_task call of worker w
FetchStep(w) ==
    /\ nops' = nops + 1
    /\ response'.tool = "fetch_task"
    /\ response'.worker = w

\* C23: first-eligible-wins.  A fetch_task call that finds tasks eligible for
\* the worker returns the one of them that was created first, and that task is
\* then assigned to the worker; the task is a function of the store's state.
FirstEligibleWins ==
    [][\A w \in Workers :
          (FetchStep(w) /\ EligibleFor(WorkerCaps(w)) # {}) =>
              LET t == response'.task IN
              /\ t \in EligibleFor(WorkerCaps(w))
              /\ \A u \in EligibleFor(WorkerCaps(w)) : Pos(t) <= Pos(u)
              /\ response'.success
              /\ context'.tasks[t].status = "assigned"
              /\ context'.tasks[t].assigned_to = w
      ]_vars

\* C23 witness: fetch_task has just returned task 1 while task 2, created
\* later, is eligible for the same worker.
FirstEligibleWinsWitness ==
    /\ response.tool = "fetch_task"
    /\ response.task = 1
    /\ 2 \in EligibleFor(WorkerCaps(response.worker))
    /\ Tasks[1].dependencies = {}

\* C24: a fetch_task call that finds no task eligible for the worker returns
\* success with task None and changes nothing: the context, the file and what
\* was returned to the workers before are as they were.
NoTaskChangesNothing ==
    [][\A w \in Workers :
          (FetchStep(w) /\ EligibleFor(WorkerCaps(w)) = {}) =>
              /\ response'.success
              /\ response'.task = NoTask
              /\ context' = context
              /\ disk' = disk
              /\ returned' = returned
      ]_vars

\* C24 witness: fetch_task has just returned no task from a store that holds
\* a pending task.
NoTaskChangesNothingWitness ==
    /\ response.tool = "fetch_task"
    /\ response.task = NoTask
    /\ response.success
    /\ \E t \in Ids : Tasks[t].status = "pending"

\* C25: a task one of whose dependencies names no task is returned by
\* get_available_tasks for no capability set, and no fetch_task call has
\* returned it to a worker.
MissingDependencyNeverEligible ==
    \A t \in Ids :
        (\E dep \in Tasks[t].dependencies : dep \notin Ids) =>
            /\ \A caps \in SUBSET Caps : t \notin AvailableSet(caps)
            /\ \A w \in Workers : returned[t][w] = 0

\* C25 witness: a fetch_task call has just been answered while a pending task
\* with a dependency that names no task was in the store.
MissingDependencyNeverEligibleWitness ==
    /\ response.tool = "fetch_task"
    /\ \E t \in Ids :
          /\ Missing \in Tasks[t].dependencies
          /\ Tasks[t].status = "pending"
          /\ Tasks[t].required_capabilities = {}

\* The tasks a worker holds: assigned to it and not yet terminal
Held(w) ==
    {t \in Ids : Tasks[t].assigned_to = w /\ Tasks[t].status \in {"assigned", "in_progress"}}

\* C28: one task at a time per worker: in every state, at most one task of the
\* store is assigned to a given worker with status assigned or in_progress.
OneTaskPerWorker == \A w \in Workers : Cardinality(Held(w)) <= 1

\* C30: an error that reaches the handler of work_loop is logged and the loop
\* resumes: no error ends work_loop of a worker that is active.
LoopErrorNeverTerminates == \A w \in Workers : is_active[w] => pc[w] # "dead"

\* C27: when the executor has raised, the except block of
\* execute_task_with_logging that the worker runs next leaves the claimed task
\* in status failed.
ExecutorFailureReported ==
    [][\A w \in Workers :
          (pc[w] = "executor_raised" /\ pc'[w] # "executor_raised") =>
              context'.tasks[current_task[w]].status = "failed"
      ]_vars

\* C26: a task that ends failed does not abort the run: from a state in which a
\* task is failed, the run reaches a state in which every task is completed or
\* failed and the Lead has declared completion.
FailureNeverAbortsRun ==
    (\E t \in Ids : Tasks[t].status = "failed") ~> (AllTerminal /\ declared # <<>>)

\* C29: stop is cooperative: a worker that has been stopped gives up the task
\* it is executing only when that task has reached its terminal report, that
\* is, when it is completed or failed.
StopLetsTaskFinish ==
    [][\A w \in Workers :
          (~is_active'[w] /\ current_task[w] # NoTask /\ current_task'[w] = NoTask) =>
              context'.tasks[current_task[w]].status \in {"completed", "failed"}
      ]_vars

\* C31: at the moment the Lead declares completion, every task in the store is
\* completed or failed.
DeclaredMeansAllTerminal ==
    [][(declared = <<>> /\ declared' # <<>>) =>
          \A t \in DOMAIN context'.tasks :
              context'.tasks[t].status \in {"completed", "failed"}
      ]_vars

\* C32: after any sequence of store operations the counters agree with the
\* tasks, as get_project_status reports both: completed_tasks is the number of
\* completed tasks and failed_tasks the number of failed tasks.
CountersMatchStatuses ==
    LET r == GetProjectStatus(context) IN
    /\ r.metrics.completed_tasks = CountOf(r.tasks_by_status, "completed")
    /\ r.metrics.failed_tasks = CountOf(r.tasks_by_status, "failed")

\* Every task of the plan is in the store and completed
AllCompleted ==
    /\ Len(context.order) = MaxTasks
    /\ \A t \in Ids : Tasks[t].status = "completed"

\* C33: in a run without failure, under weak fairness of the Lead and of each
\* worker, with a plan whose dependencies name earlier tasks and whose required
\* capabilities some worker has, every task is eventually completed and the
\* Lead eventually declares completion.
EventuallyAllCompleted == <>(AllCompleted /\ declared # <<>>)

\* C33 witness: completion was declared with both tasks completed, the second
\* one depending on the first and requiring a capability only one worker has.
EventuallyAllCompletedWitness ==
    /\ AllCompleted
    /\ declared # <<>>
    /\ Tasks[2].dependencies = {1}
    /\ Tasks[2].required_capabilities = {"python"}

\* C34: when the Lead declares completion and clears its running flag, the
\* store's metrics hold an end timestamp.
EndTimeSetOnCompletion ==
    [][(is_running /\ ~is_running') =>
          /\ declared' # <<>>
          /\ context'.metrics.end_time # None
      ]_vars

\* C35: contention is resolved by serialization.  An operation raises only when
\* its write to the file failed, never because of the lock, and every operation
\* that has run its first block gets the lock again for its save and returns.
ContentionSerialized ==
    /\ [](\A c \in Callers :
            inflight[c].ret = "raised" => inflight[c].wrote \in {"open_failed", "dump_failed"})
    /\ \A c \in Callers : (inflight[c].pc = "save") ~> (inflight[c].pc = "idle")

\* C35 witness: both callers are between the two blocks of an operation, each
\* about to ask for the lock again.
ContentionSerializedWitness ==
    /\ \A c \in Callers : inflight[c].pc = "save"
    /\ lock = None

\* C36: for every registered worker, each id in current_tasks is the id of a
\* task the worker holds (assigned to it, with status assigned or in_progress)
\* and is listed once.
CurrentTasksAreHeld ==
    \A w \in DOMAIN context.workers :
        LET cur == context.workers[w].current_tasks IN
        /\ {cur[i] : i \in DOMAIN cur} \subseteq Held(w)
        /\ \A i, j \in DOMAIN cur : cur[i] = cur[j] => i = j

LogTools == {"log_event", "request_clarification"}

\* A call of log_event or request_clarification has just returned
LogStep == nops' # nops /\ response'.tool \in LogTools

\* C37: the conversation log is append-only.  Every tool call leaves the log it
\* found as a prefix of the log it leaves; log_event and request_clarification
\* add exactly one entry, at the end and with the timestamp of the call, and
\* every other call adds none.
AppendOnlyLog ==
    [][LET old == context.conversation_history
           new == context'.conversation_history
       IN /\ Len(new) = Len(old) + (IF LogStep THEN 1 ELSE 0)
          /\ SubSeq(new, 1, Len(old)) = old
          /\ LogStep => new[Len(new)].timestamp = Now
      ]_vars

\* C37 witness: the log holds two entries, a clarification request after a
\* logged event, and a task was created after them.
AppendOnlyLogWitness ==
    /\ Len(context.conversation_history) = 2
    /\ context.conversation_history[1].entry = [event_type |-> "task_start"]
    /\ context.conversation_history[2].entry # [event_type |-> "task_start"]
    /\ context.conversation_history[1].timestamp < context.conversation_history[2].timestamp
    /\ context.metrics.total_tasks > 0
    /\ response.tool \notin LogTools

\* C38: all tasks are created before work begins: once a task has been
\* assigned to a worker, no task is created and total_tasks does not change.
CreatedBeforeWork ==
    [][(\E t \in Ids : Tasks[t].assigned_to # None) =>
          /\ DOMAIN context'.tasks = Ids
          /\ context'.metrics.total_tasks = context.metrics.total_tasks
      ]_vars

\* C39: state unchanged on error: when the write of a mutating operation fails,
\* the context in memory holds no change of that operation.  For create_task,
\* whose id names no task before the call: when its save raises, the context
\* holds no task under that id.
FailedWriteLeavesNoChange ==
    [][\A c \in Callers :
          (/\ inflight[c].pc = "save"
           /\ inflight[c].name = "create_task"
           /\ inflight'[c].ret = "raised") =>
              ~TaskExists(context', inflight[c].tid)
      ]_vars

\* C40: after any sequence of create_task operations, total_tasks is the
\* number of tasks in the task map.
TotalIsTaskCount == context.metrics.total_tasks = Cardinality(Ids)

====
